---- MODULE Spec2Model ----
(***************************************************************************)
(* Power-flow simulation engine (calculateSystemState) and the host's      *)
(* battery-energy integrator (App) of the solar planner.                   *)
(*                                                                         *)
(* JavaScript numbers are modelled as exact rationals [n, d] in lowest     *)
(* terms with d > 0; every arithmetic step of the source is one rational   *)
(* operation below, in the source's order.                                 *)
(***************************************************************************)
EXTENDS Integers, Sequences, FiniteSets, TLC

\* ------------------------------------------------------------------------
\* Exact rational arithmetic (the number type of the source)
\* ------------------------------------------------------------------------
\* A local constant: value is computed once and named by Body's parameter
With(value, Body(_)) == Body(value)

Abs(x) == IF x < 0 THEN -x ELSE x

RECURSIVE GCD(_, _)
GCD(a, b) == IF b = 0 THEN a ELSE GCD(b, a % b)

Frac(a, b) ==
    LET g == GCD(Abs(a), Abs(b))
        s == IF b < 0 THEN -1 ELSE 1
    IN  [n |-> s * (a \div g), d |-> s * (b \div g)]

R(k) == [n |-> k, d |-> 1]

Zero == R(0)

RNeg(x) == [n |-> -x.n, d |-> x.d]

RMul(x, y) ==
    IF x.n = 0 \/ y.n = 0 THEN Zero
    ELSE LET g1 == GCD(Abs(x.n), y.d)
             g2 == GCD(Abs(y.n), x.d)
         IN  [n |-> (x.n \div g1) * (y.n \div g2),
              d |-> (x.d \div g2) * (y.d \div g1)]

RDiv(x, y) ==
    IF y.n < 0 THEN RMul(x, [n |-> -y.d, d |-> -y.n])
               ELSE RMul(x, [n |-> y.d, d |-> y.n])

RAdd(x, y) ==
    LET g == GCD(x.d, y.d)
    IN  Frac(x.n * (y.d \div g) + y.n * (x.d \div g), (x.d \div g) * y.d)

RSub(x, y) == RAdd(x, RNeg(y))

\* x < y: integer parts first, then the fractional parts
RLt(x, y) ==
    LET ix == x.n \div x.d
        iy == y.n \div y.d
        g  == GCD(x.d, y.d)
    IN  IF ix # iy THEN ix < iy
        ELSE (x.n % x.d) * (y.d \div g) < (y.n % y.d) * (x.d \div g)

RLe(x, y) == ~RLt(y, x)

RGt(x, y) == RLt(y, x)

RGe(x, y) == ~RLt(x, y)

RMax(x, y) == IF RLt(x, y) THEN y ELSE x

RMin(x, y) == IF RLt(y, x) THEN y ELSE x

RPos(x) == x.n > 0

\* ------------------------------------------------------------------------
\* SimulationEngine: configuration
\* ------------------------------------------------------------------------
Modes == {"OFF_GRID", "ON_GRID", "HYBRID"}

DEFAULT_CONFIG ==
    [numPanels            |-> R(2),
     panelWattage         |-> R(250),
     panelVoltage         |-> R(25),
     wireGaugeMm2         |-> R(10),
     wireLengthFt         |-> R(20),
     batteryCapacityAh    |-> R(300),
     batteryVoltage       |-> R(24),
     batteryCRating       |-> R(20),
     inverterEfficiency   |-> Frac(8, 10),
     controllerEfficiency |-> Frac(9, 10)]

\* ------------------------------------------------------------------------
\* SimulationEngine: calculateSystemState, stage by stage
\* ------------------------------------------------------------------------

\* Mutant: the window is open at both ends
EffectiveIntensityOpenWindow(si, tod) ==
    IF RLe(tod, R(9)) \/ RGe(tod, R(16)) THEN Zero ELSE si

\* 1. Sun window
EffectiveIntensity(si, tod) ==
    IF RLt(tod, R(9)) \/ RGt(tod, R(16)) THEN Zero ELSE si

\* Mutant: a wire at exactly its rated current is unsafe
calcWireStrictlySafe(power, voltage, lengthFt, gauge) ==
    IF RLe(power, Zero) \/ RLe(voltage, Zero)
    THEN [current |-> Zero, resistance |-> Zero, isSafe |-> TRUE]
    ELSE [current    |-> RDiv(power, voltage),
          resistance |-> RDiv(RMul(RMul(Frac(172, 10000), RMul(lengthFt, Frac(3048, 10000))),
                                   R(2)), gauge),
          isSafe     |-> RLt(RDiv(power, voltage), RMul(gauge, R(5)))]

\* Helper for wire calc.  A segment result carries current, resistance and
\* isSafe; powerLoss and voltageDrop are the products PowerLoss and
\* VoltageDrop of those two, formed where the engine consumes them.
calcWire(power, voltage, lengthFt, gauge) ==
    IF RLe(power, Zero) \/ RLe(voltage, Zero)
    THEN [current |-> Zero, resistance |-> Zero, isSafe |-> TRUE]
    ELSE LET current     == RDiv(power, voltage)
             lengthM     == RMul(lengthFt, Frac(3048, 10000))
             resistance  == RDiv(RMul(RMul(Frac(172, 10000), lengthM), R(2)), gauge)
             isSafe      == RLe(current, RMul(gauge, R(5)))
         IN  [current |-> current, resistance |-> resistance, isSafe |-> isSafe]

PowerLoss(w) == RMul(RMul(w.current, w.current), w.resistance)

VoltageDrop(w) == RMul(w.current, w.resistance)

\* Mutant: the solar-leg loss is subtracted without the floor at 0
PowerAtControllerUnclamped(solarInput, solarStats) ==
    RSub(solarInput, PowerLoss(solarStats))

\* Solar -> controller: Math.max(0, solarInput - solarStats.powerLoss)
PowerAtController(solarInput, solarStats) ==
    RMax(Zero, RSub(solarInput, PowerLoss(solarStats)))

\* 2.-5. Generation, solar leg, charge limits, battery state, inverter demand
Front(si, load, level, cfg, tod) ==
    With(EffectiveIntensity(si, tod), LAMBDA effectiveIntensity :
    With(RMul(RMul(cfg.numPanels, cfg.panelWattage), effectiveIntensity), LAMBDA solarInput :
    With(calcWire(solarInput, cfg.panelVoltage, cfg.wireLengthFt, cfg.wireGaugeMm2),
         LAMBDA solarStats :
    With(RDiv(cfg.batteryCapacityAh, cfg.batteryCRating), LAMBDA maxChargeCurrent :
    With(RMul(cfg.batteryCapacityAh, cfg.batteryVoltage), LAMBDA maxWh :
    With(RMul(RDiv(level, maxWh), R(100)), LAMBDA batteryPercent :
        [effectiveIntensity |-> effectiveIntensity,
         solarInput         |-> solarInput,
         solarStats         |-> solarStats,
         powerAtController  |-> PowerAtController(solarInput, solarStats),
         maxChargePower     |-> RMul(maxChargeCurrent, cfg.batteryVoltage),
         maxWh              |-> maxWh,
         batteryPercent     |-> batteryPercent,
         isBatteryFull      |-> RGe(batteryPercent, R(100)),
         inverterInput      |-> RDiv(load, cfg.inverterEfficiency)]))))))

GRID_THRESHOLD == 30

GRID_CHARGE_THRESHOLD == 20

\* Mutant: the emergency charge ignores the sun
EmergencyChargeIgnoresSun(f) == RLt(f.batteryPercent, R(GRID_CHARGE_THRESHOLD))

\* Mutant: the emergency charge runs up to the reserve threshold
EmergencyChargeUpToReserve(f) ==
    LET isLowSolar == RLt(f.effectiveIntensity, Frac(1, 10))
    IN  RLt(f.batteryPercent, R(GRID_THRESHOLD)) /\ isLowSolar

\* Emergency charge from grid: batteryPercent < GRID_CHARGE_THRESHOLD && isLowSolar
EmergencyCharge(f) ==
    LET isLowSolar == RLt(f.effectiveIntensity, Frac(1, 10))
    IN  RLt(f.batteryPercent, R(GRID_CHARGE_THRESHOLD)) /\ isLowSolar

\* The router's variables as declared, before the mode branch
RouterIdle ==
    [inverterDrawFromBattery |-> Zero, gridActive |-> FALSE,
     gridExport |-> Zero, gridImport |-> Zero, gridChargingPower |-> Zero]

\* Mutant: OFF_GRID with a low-battery cut-off at the reserve threshold
RouteOffGridWithCutOff(f) ==
    IF RGt(f.batteryPercent, R(GRID_THRESHOLD))
    THEN [RouterIdle EXCEPT !.inverterDrawFromBattery = f.inverterInput]
    ELSE RouterIdle

\* systemMode === 'OFF_GRID'
RouteOffGrid(f) ==
    [RouterIdle EXCEPT !.gridActive = FALSE, !.inverterDrawFromBattery = f.inverterInput]

\* Mutant: ON_GRID converts the power that arrives at the controller
RouteOnGridAfterWire(f, load, cfg) ==
    With(RMul(f.powerAtController, cfg.inverterEfficiency), LAMBDA solarPowerAC :
        IF RGe(solarPowerAC, load)
        THEN [RouterIdle EXCEPT !.gridActive = TRUE,
                                !.gridExport = RSub(solarPowerAC, load)]
        ELSE [RouterIdle EXCEPT !.gridActive = TRUE,
                                !.gridImport = RSub(load, solarPowerAC)])

\* systemMode === 'ON_GRID'
RouteOnGrid(f, load, cfg) ==
    With(RMul(f.solarInput, cfg.inverterEfficiency), LAMBDA solarPowerAC :
        IF RGe(solarPowerAC, load)
        THEN [RouterIdle EXCEPT !.gridActive = TRUE,
                                !.gridExport = RSub(solarPowerAC, load),
                                !.gridImport = Zero]
        ELSE [RouterIdle EXCEPT !.gridActive = TRUE,
                                !.gridExport = Zero,
                                !.gridImport = RSub(load, solarPowerAC)])

\* Mutant: HYBRID falls back to the grid whenever solar is short of the demand
RouteHybridNoReserve(f, load, cfg) ==
    IF RGe(RMul(f.powerAtController, cfg.controllerEfficiency), f.inverterInput)
    THEN [RouterIdle EXCEPT !.gridActive = TRUE, !.inverterDrawFromBattery = f.inverterInput]
    ELSE [RouterIdle EXCEPT !.gridActive = TRUE, !.gridImport = load]

\* Mutant: the battery carries the load down to the reserve inclusive
RouteHybridReserveInclusive(f, load, cfg) ==
    With(RMul(f.powerAtController, cfg.controllerEfficiency), LAMBDA solarAvailableForLoad :
    With(RGe(f.batteryPercent, R(GRID_THRESHOLD)), LAMBDA batteryCanSupport :
        IF RGe(solarAvailableForLoad, f.inverterInput) THEN
            [RouterIdle EXCEPT !.gridActive = TRUE, !.inverterDrawFromBattery = f.inverterInput]
        ELSE IF batteryCanSupport THEN
            [RouterIdle EXCEPT !.gridActive = TRUE, !.inverterDrawFromBattery = f.inverterInput]
        ELSE IF EmergencyCharge(f) THEN
            With(RDiv(f.maxChargePower, cfg.inverterEfficiency), LAMBDA gridChargingPower :
                [RouterIdle EXCEPT !.gridActive = TRUE,
                                   !.gridImport = RAdd(load, gridChargingPower),
                                   !.gridChargingPower = gridChargingPower])
        ELSE
            [RouterIdle EXCEPT !.gridActive = TRUE, !.gridImport = load]))

\* HYBRID
RouteHybrid(f, load, cfg) ==
    With(RMul(f.powerAtController, cfg.controllerEfficiency), LAMBDA solarAvailableForLoad :
    With(RGt(f.batteryPercent, R(GRID_THRESHOLD)), LAMBDA batteryCanSupport :
        IF RGe(solarAvailableForLoad, f.inverterInput) THEN
            [RouterIdle EXCEPT !.gridActive = TRUE, !.inverterDrawFromBattery = f.inverterInput]
        ELSE IF batteryCanSupport THEN
            [RouterIdle EXCEPT !.gridActive = TRUE, !.inverterDrawFromBattery = f.inverterInput]
        ELSE IF EmergencyCharge(f) THEN
            With(RDiv(f.maxChargePower, cfg.inverterEfficiency), LAMBDA gridChargingPower :
                [RouterIdle EXCEPT !.gridActive = TRUE,
                                   !.gridImport = RAdd(load, gridChargingPower),
                                   !.gridChargingPower = gridChargingPower])
        ELSE
            [RouterIdle EXCEPT !.gridActive = TRUE, !.gridImport = load]))

\* Mode routing: OFF_GRID / ON_GRID / HYBRID branch
ModeRouter(f, load, cfg, mode) ==
    IF mode = "OFF_GRID" THEN RouteOffGrid(f)
    ELSE IF mode = "ON_GRID" THEN RouteOnGrid(f, load, cfg)
    ELSE RouteHybrid(f, load, cfg)

\* Mutant: the controller charges in ON_GRID as it does in OFF_GRID
ControllerOutputChargesOnGrid(f, r, cfg, mode) ==
    LET powerAvailableForCharging == RMul(f.powerAtController, cfg.controllerEfficiency)
        totalDemand == RAdd(f.maxChargePower, r.inverterDrawFromBattery)
        keep == [powerToBattery |-> Zero, wastedPower |-> Zero,
                 inverterDrawFromBattery |-> r.inverterDrawFromBattery,
                 gridExport |-> r.gridExport, gridActive |-> r.gridActive]
    IN  IF RGt(powerAvailableForCharging, totalDemand)
        THEN [keep EXCEPT !.powerToBattery = totalDemand,
                          !.wastedPower = RSub(powerAvailableForCharging, totalDemand)]
        ELSE [keep EXCEPT !.powerToBattery = powerAvailableForCharging]

\* Mutant: HYBRID wastes the excess as OFF_GRID does
ControllerOutputWastesInHybrid(f, r, cfg, mode) ==
    LET powerAvailableForCharging == RMul(f.powerAtController, cfg.controllerEfficiency)
        totalDemand == RAdd(f.maxChargePower, r.inverterDrawFromBattery)
        keep == [powerToBattery |-> Zero, wastedPower |-> Zero,
                 inverterDrawFromBattery |-> r.inverterDrawFromBattery,
                 gridExport |-> r.gridExport, gridActive |-> r.gridActive]
    IN  IF mode = "ON_GRID" THEN keep
        ELSE IF RGt(powerAvailableForCharging, totalDemand)
        THEN [keep EXCEPT !.powerToBattery = totalDemand,
                          !.wastedPower = RSub(powerAvailableForCharging, totalDemand)]
        ELSE [keep EXCEPT !.powerToBattery = powerAvailableForCharging]

\* 6. Controller output (solar -> DC bus); r is the router's result
ControllerOutput(f, r, cfg, mode) ==
    LET powerAvailableForCharging == RMul(f.powerAtController, cfg.controllerEfficiency)
        totalDemand == IF mode = "ON_GRID" THEN Zero
                       ELSE RAdd(f.maxChargePower, r.inverterDrawFromBattery)
        keep == [powerToBattery |-> Zero, wastedPower |-> Zero,
                 inverterDrawFromBattery |-> r.inverterDrawFromBattery,
                 gridExport |-> r.gridExport, gridActive |-> r.gridActive]
    IN  IF mode = "ON_GRID" THEN keep
        ELSE IF RGt(powerAvailableForCharging, totalDemand) THEN
            IF mode = "HYBRID" THEN
                LET excessDC == RSub(powerAvailableForCharging, totalDemand)
                IN  [keep EXCEPT !.powerToBattery = powerAvailableForCharging,
                                 !.inverterDrawFromBattery = RAdd(r.inverterDrawFromBattery, excessDC),
                                 !.gridExport = RMul(excessDC, cfg.inverterEfficiency),
                                 !.gridActive = TRUE]
            ELSE
                [keep EXCEPT !.powerToBattery = totalDemand,
                             !.wastedPower = RSub(powerAvailableForCharging, totalDemand)]
        ELSE [keep EXCEPT !.powerToBattery = powerAvailableForCharging]

\* Mutant: the discharge is counted on the AC side of the inverter
RoutedFlowAcSideDraw(r, c, cfg, mode) ==
    IF mode = "ON_GRID" THEN Zero
    ELSE RSub(RAdd(c.powerToBattery, RMul(r.gridChargingPower, cfg.inverterEfficiency)),
              RMul(c.inverterDrawFromBattery, cfg.inverterEfficiency))

\* 7. Net battery flow before the full-battery clamp ("routed flow")
RoutedFlow(r, c, cfg, mode) ==
    IF mode = "ON_GRID" THEN Zero
    ELSE LET gridChargeDC == RMul(r.gridChargingPower, cfg.inverterEfficiency)
         IN  RSub(RAdd(c.powerToBattery, gridChargeDC), c.inverterDrawFromBattery)

\* Mutant: a full battery wastes the excess in HYBRID too
FullBatteryClampAlwaysWaste(f, r, c, cfg, mode) ==
    LET routed == RoutedFlow(r, c, cfg, mode)
        keep == [netBatteryFlow |-> routed,
                 effectiveControllerOutput |-> c.powerToBattery,
                 inverterDrawFromBattery |-> c.inverterDrawFromBattery,
                 gridExport |-> c.gridExport,
                 wastedPower |-> c.wastedPower]
    IN  IF mode # "ON_GRID" /\ f.isBatteryFull /\ RPos(routed) THEN
            [keep EXCEPT !.effectiveControllerOutput = RSub(c.powerToBattery, routed),
                         !.wastedPower = RAdd(c.wastedPower, routed),
                         !.netBatteryFlow = Zero]
        ELSE keep

\* Mutant: OFF_GRID records the waste without reducing the controller output
FullBatteryClampKeepsOutput(f, r, c, cfg, mode) ==
    LET routed == RoutedFlow(r, c, cfg, mode)
        keep == [netBatteryFlow |-> routed,
                 effectiveControllerOutput |-> c.powerToBattery,
                 inverterDrawFromBattery |-> c.inverterDrawFromBattery,
                 gridExport |-> c.gridExport,
                 wastedPower |-> c.wastedPower]
    IN  IF mode # "ON_GRID" /\ f.isBatteryFull /\ RPos(routed) THEN
            IF mode = "HYBRID" THEN
                [keep EXCEPT !.inverterDrawFromBattery = RAdd(c.inverterDrawFromBattery, routed),
                             !.gridExport = RAdd(c.gridExport, RMul(routed, cfg.inverterEfficiency)),
                             !.netBatteryFlow = Zero]
            ELSE
                [keep EXCEPT !.wastedPower = RAdd(c.wastedPower, routed),
                             !.netBatteryFlow = Zero]
        ELSE keep

\* 7. Net battery flow with the full-battery clamp; c is the controller result
FullBatteryClamp(f, r, c, cfg, mode) ==
    LET routed == RoutedFlow(r, c, cfg, mode)
        keep == [netBatteryFlow |-> routed,
                 effectiveControllerOutput |-> c.powerToBattery,
                 inverterDrawFromBattery |-> c.inverterDrawFromBattery,
                 gridExport |-> c.gridExport,
                 wastedPower |-> c.wastedPower]
    IN  IF mode # "ON_GRID" /\ f.isBatteryFull /\ RPos(routed) THEN
            IF mode = "HYBRID" THEN
                [keep EXCEPT !.inverterDrawFromBattery = RAdd(c.inverterDrawFromBattery, routed),
                             !.gridExport = RAdd(c.gridExport, RMul(routed, cfg.inverterEfficiency)),
                             !.netBatteryFlow = Zero]
            ELSE
                [keep EXCEPT !.effectiveControllerOutput = RSub(c.powerToBattery, routed),
                             !.wastedPower = RAdd(c.wastedPower, routed),
                             !.netBatteryFlow = Zero]
        ELSE keep

\* Mutant: the correction is left out
NetGridFlowNoNetting(gridImport, gridExport) ==
    [gridImport |-> gridImport, gridExport |-> gridExport]

\* Net grid flow correction
NetGridFlow(gridImport, gridExport) ==
    IF RPos(gridImport) /\ RPos(gridExport) THEN
        IF RGe(gridImport, gridExport)
        THEN [gridImport |-> RSub(gridImport, gridExport), gridExport |-> Zero]
        ELSE [gridImport |-> Zero, gridExport |-> RSub(gridExport, gridImport)]
    ELSE [gridImport |-> gridImport, gridExport |-> gridExport]

\* Mutant: the message does not follow isSafe
WireMessageAlwaysOK(isSafe) == "OK"

\* message: solarStats.isSafe ? "OK" : "WARNING: Wire overheating!"
WireMessage(isSafe) == IF isSafe THEN "OK" ELSE "WARNING: Wire overheating!"

calculateSystemState(si, load, level, cfg, tod, mode) ==
    With(Front(si, load, level, cfg, tod), LAMBDA f :
    With(ModeRouter(f, load, cfg, mode), LAMBDA r :
    With(ControllerOutput(f, r, cfg, mode), LAMBDA c :
    With(FullBatteryClamp(f, r, c, cfg, mode), LAMBDA b :
    With(NetGridFlow(r.gridImport, b.gridExport), LAMBDA g :
    With(IF RPos(r.gridChargingPower) THEN r.gridChargingPower ELSE b.inverterDrawFromBattery,
         LAMBDA battToInvPower :
        [sunIntensity      |-> f.effectiveIntensity,
         generation        |-> f.solarInput,
         panelVoltage      |-> cfg.panelVoltage,
         wireAnalysis      |->
             [current     |-> f.solarStats.current,
              powerLoss   |-> PowerLoss(f.solarStats),
              voltageDrop |-> VoltageDrop(f.solarStats),
              isSafe      |-> f.solarStats.isSafe,
              message     |-> WireMessage(f.solarStats.isSafe)],
         wireStats         |->
             [solarToController   |-> f.solarStats,
              controllerToBattery |-> calcWire(c.powerToBattery, cfg.batteryVoltage, R(5),
                                               cfg.wireGaugeMm2),
              batteryToInverter   |-> calcWire(battToInvPower, cfg.batteryVoltage, R(5),
                                               cfg.wireGaugeMm2),
              inverterToLoad      |-> calcWire(load, R(230), R(20), Frac(25, 10))],
         powerAtController |-> f.powerAtController,
         powerToBattery    |-> b.effectiveControllerOutput,
         batteryLevel      |-> level,
         batteryPercent    |-> f.batteryPercent,
         acLoad            |-> load,
         inverterInput     |-> f.inverterInput,
         netBatteryFlow    |-> b.netBatteryFlow,
         gridActive        |-> c.gridActive,
         gridExport        |-> g.gridExport,
         gridImport        |-> g.gridImport,
         wastedPower       |-> b.wastedPower,
         battToInvPower    |-> battToInvPower]))))))

\* ------------------------------------------------------------------------
\* Legacy copy of the engine (projects/solar_odisha/web_ui/src)
\* ------------------------------------------------------------------------
LEGACY_GRID_THRESHOLD == 70

LegacyModeRouter(f, load, cfg, mode) ==
    LET idle == [inverterDrawFromBattery |-> Zero, gridActive |-> FALSE,
                 gridExport |-> Zero, gridImport |-> Zero]
    IN  IF mode = "OFF_GRID" THEN
            [idle EXCEPT !.inverterDrawFromBattery = f.inverterInput]
        ELSE IF mode = "ON_GRID" THEN
            LET solarPowerAC == RMul(f.solarInput, cfg.inverterEfficiency)
            IN  IF RGe(solarPowerAC, load)
                THEN [idle EXCEPT !.gridActive = TRUE,
                                  !.gridExport = RSub(solarPowerAC, load)]
                ELSE [idle EXCEPT !.gridActive = TRUE,
                                  !.gridImport = RSub(load, solarPowerAC)]
        ELSE IF RLt(f.batteryPercent, R(LEGACY_GRID_THRESHOLD))
             THEN [idle EXCEPT !.gridActive = TRUE, !.gridImport = load]
             ELSE [idle EXCEPT !.inverterDrawFromBattery = f.inverterInput]

LegacyCalculateSystemState(si, load, level, cfg, tod, mode) ==
    With(Front(si, load, level, cfg, tod), LAMBDA f :
    With(RMul(f.powerAtController, cfg.controllerEfficiency), LAMBDA powerAvailableForCharging :
    With(RGt(powerAvailableForCharging, f.maxChargePower), LAMBDA capped :
    With(IF mode = "ON_GRID" THEN Zero
         ELSE IF capped THEN f.maxChargePower
         ELSE powerAvailableForCharging, LAMBDA powerToBattery :
    With(IF mode # "ON_GRID" /\ capped
         THEN RSub(powerAvailableForCharging, f.maxChargePower)
         ELSE Zero, LAMBDA wastedPower :
    With(LegacyModeRouter(f, load, cfg, mode), LAMBDA r :
    With(IF f.isBatteryFull THEN Zero ELSE powerToBattery, LAMBDA actualCharge :
    With(IF mode = "ON_GRID" THEN Zero
         ELSE RSub(actualCharge, r.inverterDrawFromBattery), LAMBDA netBatteryFlow :
        [sunIntensity      |-> f.effectiveIntensity,
         generation        |-> f.solarInput,
         powerAtController |-> f.powerAtController,
         powerToBattery    |-> powerToBattery,
         batteryLevel      |-> level,
         batteryPercent    |-> f.batteryPercent,
         acLoad            |-> load,
         inverterInput     |-> f.inverterInput,
         inverterDrawFromBattery |-> r.inverterDrawFromBattery,
         netBatteryFlow    |-> netBatteryFlow,
         gridActive        |-> r.gridActive,
         gridExport        |-> r.gridExport,
         gridImport        |-> r.gridImport,
         wastedPower       |-> wastedPower]))))))))

\* ------------------------------------------------------------------------
\* Bounds and input sets
\* ------------------------------------------------------------------------
\* Date.now() is observed at multiples of ClockStepMs (a suspended tab: the
\* interval callback fires late); one step is 10 simulated hours.
ClockStepMs == 3600 * 1000

MaxTicks == 3

\* Values Date.now() takes, relative to the mount
ClockValues == {0, ClockStepMs}

\* (intensity, timeOfDay) pairs reported through onSunPositionChange
SunPositions == {<<Zero, R(6)>>, <<R(1), R(12)>>}

\* AC load slider (0..2000)
AcLoads == {R(100), R(2000)}

\* Configurations the editor can produce from DEFAULT_CONFIG
SmallBattery == [DEFAULT_CONFIG EXCEPT !.batteryCapacityAh = R(100)]

Configs == {DEFAULT_CONFIG, SmallBattery}

\* ------------------------------------------------------------------------
\* App: state
\* ------------------------------------------------------------------------
VARIABLES
    sunIntensity,        \* useState(0)
    timeOfDay,           \* useState(9)
    acLoad,              \* useState(100)
    systemMode,          \* useState('HYBRID')
    config,              \* useState(DEFAULT_CONFIG)
    batteryLevel,        \* useState(capacityAh * voltage * 0.5)
    lastTimeRef,         \* useRef(Date.now()), ms
    now,                 \* Date.now(), ms
    interval,            \* values captured by the running setInterval closure
    pc,                  \* "idle", or "effects": a render is committed, its effects not yet run
    currentSystemState,  \* snapshot computed by the last render
    lastTick,            \* the integrator update made by the last step, if it was a tick
    ticks,               \* number of integrator updates so far
    legacySystemState    \* snapshot returned by the legacy copy of the engine

vars == <<sunIntensity, timeOfDay, acLoad, systemMode, config, batteryLevel,
          lastTimeRef, now, interval, pc, currentSystemState, lastTick, ticks,
          legacySystemState>>

MaxWh(cfg) == RMul(cfg.batteryCapacityAh, cfg.batteryVoltage)

\* The closure of the effect at the current render
Closure(si, load, cfg, tod, mode) ==
    [sunIntensity |-> si, acLoad |-> load, config |-> cfg,
     timeOfDay |-> tod, systemMode |-> mode]

\* Mutant: the evaluation caps the level it is given at the capacity
RenderCapsLevel(si, load, level, cfg, tod, mode) ==
    calculateSystemState(si, load, RMin(level, MaxWh(cfg)), cfg, tod, mode)

\* Line 46: the render's evaluation
Render(si, load, level, cfg, tod, mode) ==
    calculateSystemState(si, load, level, cfg, tod, mode)

\* Mutant: the new level is not capped at maxWh
IntegrateFlowNoUpperClamp(prevLevel, netBatteryFlow, cfg, dtMs) ==
    LET effectiveDtHours == RDiv(RMul(Frac(dtMs, 1000), R(10)), R(3600))
    IN  RMax(Zero, RAdd(prevLevel, RMul(netBatteryFlow, effectiveDtHours)))

\* Mutant: an elapsed time of zero is integrated as one clock step
IntegrateFlowMinStep(prevLevel, netBatteryFlow, cfg, dtMs) ==
    LET dt               == IF dtMs = 0 THEN ClockStepMs ELSE dtMs
        effectiveDtHours == RDiv(RMul(Frac(dt, 1000), R(10)), R(3600))
        newLevel         == RAdd(prevLevel, RMul(netBatteryFlow, effectiveDtHours))
    IN  RMax(Zero, RMin(newLevel, MaxWh(cfg)))

\* setBatteryLevel updater of the interval callback, given the engine's result
IntegrateFlow(prevLevel, netBatteryFlow, cfg, dtMs) ==
    LET dtSeconds        == Frac(dtMs, 1000)
        effectiveDtHours == RDiv(RMul(dtSeconds, R(10)), R(3600))
        energyChange     == RMul(netBatteryFlow, effectiveDtHours)
        maxWh            == MaxWh(cfg)
        newLevel         == RAdd(prevLevel, energyChange)
    IN  RMax(Zero, RMin(newLevel, maxWh))

\* setBatteryLevel updater of the capacity effect
Reclamp(prev, cfg) == RMin(prev, MaxWh(cfg))

NoTick == [dtMs |-> 0, prev |-> Zero, new |-> Zero, flow |-> Zero,
           closure |-> Closure(Zero, Zero, DEFAULT_CONFIG, Zero, "HYBRID"), done |-> FALSE]

\* One run of the interval callback's updater on prev, with the closure cl
TickRecord(prev, cl, dtMs) ==
    With(calculateSystemState(cl.sunIntensity, cl.acLoad, prev, cl.config,
                              cl.timeOfDay, cl.systemMode), LAMBDA state :
        [dtMs |-> dtMs, prev |-> prev,
         new |-> IntegrateFlow(prev, state.netBatteryFlow, cl.config, dtMs),
         flow |-> state.netBatteryFlow, closure |-> cl, done |-> TRUE])

Init ==
    /\ sunIntensity = Zero
    /\ timeOfDay = R(9)
    /\ acLoad = R(100)
    /\ systemMode = "HYBRID"
    /\ config = DEFAULT_CONFIG
    /\ batteryLevel = RMul(MaxWh(DEFAULT_CONFIG), Frac(1, 2))
    /\ now = 0
    /\ lastTimeRef = 0
    /\ interval = Closure(Zero, R(100), DEFAULT_CONFIG, R(9), "HYBRID")
    /\ pc = "idle"
    /\ currentSystemState =
           Render(Zero, R(100), RMul(MaxWh(DEFAULT_CONFIG), Frac(1, 2)),
                  DEFAULT_CONFIG, R(9), "HYBRID")
    /\ lastTick = NoTick
    /\ ticks = 0
    /\ legacySystemState =
           LegacyCalculateSystemState(Zero, R(100), RMul(MaxWh(DEFAULT_CONFIG), Frac(1, 2)),
                                      DEFAULT_CONFIG, R(9), "HYBRID")

\* ------------------------------------------------------------------------
\* App: operations
\* ------------------------------------------------------------------------
\* A state setter with a new value: re-render now, effects later
Rerender(si, load, cfg, tod, mode) ==
    /\ currentSystemState' = Render(si, load, batteryLevel, cfg, tod, mode)
    /\ pc' = "effects"
    /\ lastTick' = NoTick
    /\ UNCHANGED <<batteryLevel, lastTimeRef, now, interval, ticks, legacySystemState>>

\* onClick={() => setSystemMode(...)}
SetSystemMode(m) ==
    /\ pc = "idle"
    /\ m # systemMode
    /\ systemMode' = m
    /\ UNCHANGED <<sunIntensity, timeOfDay, acLoad, config>>
    /\ Rerender(sunIntensity, acLoad, config, timeOfDay, m)

\* onChange={(e) => setAcLoad(Number(e.target.value))}
SetAcLoad(l) ==
    /\ pc = "idle"
    /\ l # acLoad
    /\ acLoad' = l
    /\ UNCHANGED <<sunIntensity, timeOfDay, systemMode, config>>
    /\ Rerender(sunIntensity, l, config, timeOfDay, systemMode)

\* Mutant: dragging the sun also switches the system to OFF_GRID
handleSunChangeSelectsOffGrid(intensity, time) ==
    /\ pc = "idle"
    /\ <<intensity, time>> # <<sunIntensity, timeOfDay>>
    /\ sunIntensity' = intensity
    /\ timeOfDay' = time
    /\ systemMode' = "OFF_GRID"
    /\ UNCHANGED <<acLoad, config>>
    /\ Rerender(intensity, acLoad, config, time, "OFF_GRID")

\* SunControl onChange={handleSunChange}
handleSunChange(intensity, time) ==
    /\ pc = "idle"
    /\ <<intensity, time>> # <<sunIntensity, timeOfDay>>
    /\ sunIntensity' = intensity
    /\ timeOfDay' = time
    /\ UNCHANGED <<acLoad, systemMode, config>>
    /\ Rerender(intensity, acLoad, config, time, systemMode)

\* SystemEditor.handleChange -> onConfigChange={setConfig}
handleChange(newConfig) ==
    /\ pc = "idle"
    /\ newConfig # config
    /\ config' = newConfig
    /\ UNCHANGED <<sunIntensity, timeOfDay, acLoad, systemMode>>
    /\ Rerender(sunIntensity, acLoad, newConfig, timeOfDay, systemMode)

\* The capacity effect runs when one of its two dependencies changed
CapacityDepsChanged ==
    \/ config.batteryCapacityAh # interval.config.batteryCapacityAh
    \/ config.batteryVoltage # interval.config.batteryVoltage

\* Mutant: the re-clamp is computed from the level of the committed render
AfterEffectsFromRenderedLevel(level) ==
    IF CapacityDepsChanged THEN Reclamp(currentSystemState.batteryLevel, config) ELSE level

\* The level after the pending effects have run on it
AfterEffects(level) == IF CapacityDepsChanged THEN Reclamp(level, config) ELSE level

\* The effects of the committed render: re-clamp, clearInterval, setInterval
RunEffects ==
    /\ pc = "effects"
    /\ batteryLevel' = AfterEffects(batteryLevel)
    /\ interval' = Closure(sunIntensity, acLoad, config, timeOfDay, systemMode)
    /\ currentSystemState' =
           Render(sunIntensity, acLoad, AfterEffects(batteryLevel), config, timeOfDay, systemMode)
    /\ pc' = "idle"
    /\ lastTick' = NoTick
    /\ UNCHANGED <<sunIntensity, timeOfDay, acLoad, systemMode, config,
                   lastTimeRef, now, ticks, legacySystemState>>

\* The interval callback
Tick ==
    /\ pc = "idle"
    /\ ticks < MaxTicks
    /\ \E t \in {TickRecord(batteryLevel, interval, now - lastTimeRef)} :
           /\ lastTick' = t
           /\ batteryLevel' = t.new
           /\ currentSystemState' =
                  Render(sunIntensity, acLoad, t.new, config, timeOfDay, systemMode)
    /\ lastTimeRef' = now
    /\ ticks' = ticks + 1
    /\ UNCHANGED <<sunIntensity, timeOfDay, acLoad, systemMode, config, now, interval, pc,
                   legacySystemState>>

\* The interval callback of the previous render fires before the pending
\* effects have cleared it; the effects are flushed before the next render
TickBeforeEffects ==
    /\ pc = "effects"
    /\ ticks < MaxTicks
    /\ \E t \in {TickRecord(batteryLevel, interval, now - lastTimeRef)} :
           /\ lastTick' = t
           /\ batteryLevel' = AfterEffects(t.new)
           /\ currentSystemState' =
                  Render(sunIntensity, acLoad, AfterEffects(t.new), config, timeOfDay,
                         systemMode)
    /\ lastTimeRef' = now
    /\ interval' = Closure(sunIntensity, acLoad, config, timeOfDay, systemMode)
    /\ pc' = "idle"
    /\ ticks' = ticks + 1
    /\ UNCHANGED <<sunIntensity, timeOfDay, acLoad, systemMode, config, now,
                   legacySystemState>>

\* Date.now() moves (forwards, or backwards on a clock adjustment)
ClockJump(t) ==
    /\ t # now
    /\ now' = t
    /\ lastTick' = NoTick
    /\ UNCHANGED <<sunIntensity, timeOfDay, acLoad, systemMode, config, batteryLevel,
                   lastTimeRef, interval, pc, currentSystemState, ticks,
                   legacySystemState>>

Next ==
    \/ \E m \in Modes : SetSystemMode(m)
    \/ \E l \in AcLoads : SetAcLoad(l)
    \/ \E p \in SunPositions : handleSunChange(p[1], p[2])
    \/ \E c \in Configs : handleChange(c)
    \/ RunEffects
    \/ Tick
    \/ TickBeforeEffects
    \/ \E t \in ClockValues : ClockJump(t)

Spec == Init /\ [][Next]_vars

\* Fixed configuration: every operation but the configuration editor
NextFixedConfig ==
    \/ \E m \in Modes : SetSystemMode(m)
    \/ \E l \in AcLoads : SetAcLoad(l)
    \/ \E p \in SunPositions : handleSunChange(p[1], p[2])
    \/ RunEffects
    \/ Tick
    \/ TickBeforeEffects
    \/ \E t \in ClockValues : ClockJump(t)

SpecFixedConfig == Init /\ [][NextFixedConfig]_vars

\* ------------------------------------------------------------------------
\* The engine as a pure function: one call per argument tuple
\* ------------------------------------------------------------------------
EngineIntensities == {Zero, Frac(1, 20), Frac(1, 2), R(1)}

EngineTimes == {R(8), R(9), R(12), R(16), R(17)}

EngineLoads == {Zero, R(100), R(200), R(400), R(960), R(2000)}

EngineLevels ==
    {Zero, R(360), R(480), R(720), R(1080), R(1440), R(2160), R(2400), R(3600), R(7200)}

ThinWire == [DEFAULT_CONFIG EXCEPT !.wireGaugeMm2 = Frac(15, 10)]

BigArray == [DEFAULT_CONFIG EXCEPT !.numPanels = R(50)]

\* 50 panels on the 1.5 mm2 wire: the solar-leg loss exceeds the generation
OverloadedWire == [BigArray EXCEPT !.wireGaugeMm2 = Frac(15, 10)]

EngineConfigs == {DEFAULT_CONFIG, SmallBattery, ThinWire, BigArray, OverloadedWire}

\* Intensity 1/20 goes with the 50-panel array (25 A in the solar leg): with
\* the 2-panel array the solar-leg loss at 1 A has a denominator of 781250,
\* and sums with it leave the integer range
Representable(si, cfg) == si = Frac(1, 20) => cfg = BigArray

NotEvaluated == [evaluated |-> FALSE]

InitEngine ==
    /\ sunIntensity \in EngineIntensities
    /\ timeOfDay \in EngineTimes
    /\ acLoad \in EngineLoads
    /\ systemMode \in Modes
    /\ config \in EngineConfigs
    /\ batteryLevel \in EngineLevels
    /\ Representable(sunIntensity, config)
    /\ pc = "call"
    /\ currentSystemState = NotEvaluated
    /\ legacySystemState = NotEvaluated
    /\ now = 0
    /\ lastTimeRef = 0
    /\ interval = NotEvaluated
    /\ lastTick = NoTick
    /\ ticks = 0

\* calculateSystemState(sunIntensity, acLoad, batteryLevel, config, timeOfDay, systemMode)
Evaluate ==
    /\ pc = "call"
    /\ currentSystemState' =
           calculateSystemState(sunIntensity, acLoad, batteryLevel, config, timeOfDay, systemMode)
    /\ legacySystemState' =
           LegacyCalculateSystemState(sunIntensity, acLoad, batteryLevel, config, timeOfDay,
                                      systemMode)
    /\ pc' = "returned"
    /\ UNCHANGED <<sunIntensity, timeOfDay, acLoad, systemMode, config, batteryLevel,
                   lastTimeRef, now, interval, lastTick, ticks>>

NextEngine == Evaluate

SpecEngine == InitEngine /\ [][NextEngine]_vars

\* ------------------------------------------------------------------------
\* Properties
\* ------------------------------------------------------------------------
\* The engine's stages on the current arguments
ArgFront == Front(sunIntensity, acLoad, batteryLevel, config, timeOfDay)

ArgRouter == ModeRouter(ArgFront, acLoad, config, systemMode)

ArgController == ControllerOutput(ArgFront, ArgRouter, config, systemMode)

ArgRouted == RoutedFlow(ArgRouter, ArgController, config, systemMode)

ArgClamp == FullBatteryClamp(ArgFront, ArgRouter, ArgController, config, systemMode)

Returned == pc = "returned"

BothPositive(snapshot) == RPos(snapshot.gridImport) /\ RPos(snapshot.gridExport)

\* C1: for every mode and input the returned snapshot never has gridImport > 0
\* and gridExport > 0 together (either copy of the engine); where import and
\* export are both positive before the correction, the result is their
\* difference on the larger side and zero on the other.
C1_NoSimultaneousImportExport ==
    Returned =>
        /\ ~BothPositive(currentSystemState)
        /\ ~BothPositive(legacySystemState)
        /\ (RPos(ArgRouter.gridImport) /\ RPos(ArgClamp.gridExport)) =>
               IF RGe(ArgRouter.gridImport, ArgClamp.gridExport)
               THEN /\ currentSystemState.gridImport =
                           RSub(ArgRouter.gridImport, ArgClamp.gridExport)
                    /\ currentSystemState.gridExport = Zero
               ELSE /\ currentSystemState.gridExport =
                           RSub(ArgClamp.gridExport, ArgRouter.gridImport)
                    /\ currentSystemState.gridImport = Zero

\* C1 witness: a call in which import and export are both positive before the correction
C1_Witness ==
    /\ Returned
    /\ RPos(ArgRouter.gridImport)
    /\ RPos(ArgClamp.gridExport)
    /\ RPos(currentSystemState.gridImport)

\* prev + netBatteryFlow x effectiveDtHours of a tick, before the clamp
Unclamped(t) == RAdd(t.prev, RMul(t.flow, Frac(t.dtMs, 360000)))

\* C2: under a fixed configuration, after any sequence of ticks the stored
\* energy is in [0, capacityAh x batteryVoltage] and the rendered
\* batteryPercent is in [0, 100].
C2_BatteryWithinCapacity ==
    /\ RGe(batteryLevel, Zero)
    /\ RLe(batteryLevel, MaxWh(config))
    /\ RGe(currentSystemState.batteryPercent, Zero)
    /\ RLe(currentSystemState.batteryPercent, R(100))

\* C2 witness: a tick with positive elapsed time whose sum exceeds maxWh
C2_Witness ==
    /\ lastTick.done
    /\ lastTick.dtMs > 0
    /\ RLt(lastTick.prev, MaxWh(config))
    /\ RGt(Unclamped(lastTick), MaxWh(config))
    /\ batteryLevel = MaxWh(config)

\* C3: in ON_GRID mode the snapshot has netBatteryFlow = 0 and
\* powerToBattery = 0, and a tick that integrates in ON_GRID mode leaves the
\* stored energy as it was.
C3_OnGridFreezesBattery ==
    /\ systemMode = "ON_GRID" =>
           /\ currentSystemState.netBatteryFlow = Zero
           /\ currentSystemState.powerToBattery = Zero
    /\ (lastTick.done /\ lastTick.closure.systemMode = "ON_GRID") =>
           /\ lastTick.flow = Zero
           /\ lastTick.new = lastTick.prev

\* C3 witness: an ON_GRID tick under full sun with a non-zero elapsed time
C3_Witness ==
    /\ lastTick.done
    /\ lastTick.closure.systemMode = "ON_GRID"
    /\ lastTick.closure.sunIntensity = R(1)
    /\ lastTick.dtMs # 0
    /\ systemMode = "ON_GRID"
    /\ RPos(currentSystemState.generation)

FullAndCharging == Returned /\ ArgFront.isBatteryFull /\ RPos(ArgRouted)

\* C4: when batteryPercent >= 100 and the routed flow into the battery is
\* positive, netBatteryFlow is 0; in HYBRID the routed flow is added to the
\* inverter draw and, times inverterEfficiency, to gridExport, and wastedPower
\* stays 0; in OFF_GRID wastedPower grows by the routed flow and the reported
\* powerToBattery shrinks by it.
C4_FullBatteryClamp ==
    FullAndCharging =>
        /\ currentSystemState.netBatteryFlow = Zero
        /\ systemMode = "HYBRID" =>
               /\ currentSystemState.battToInvPower =
                      RAdd(ArgController.inverterDrawFromBattery, ArgRouted)
               /\ currentSystemState.gridExport =
                      RAdd(ArgController.gridExport,
                           RMul(ArgRouted, config.inverterEfficiency))
               /\ currentSystemState.wastedPower = Zero
        /\ systemMode = "OFF_GRID" =>
               /\ currentSystemState.wastedPower = RAdd(ArgController.wastedPower, ArgRouted)
               /\ currentSystemState.powerToBattery =
                      RSub(ArgController.powerToBattery, ArgRouted)

\* C4 witness: a full battery in HYBRID with solar surplus already exported
C4_Witness ==
    /\ FullAndCharging
    /\ systemMode = "HYBRID"
    /\ RPos(ArgController.gridExport)

\* C5 (as claimed): netBatteryFlow never exceeds max charge power.
C5_ChargeCeiling ==
    Returned => RLe(currentSystemState.netBatteryFlow, ArgFront.maxChargePower)

\* C6 (as claimed): a tick with a negative elapsed time leaves the stored energy unchanged.
C6_NegativeDtNoOp ==
    (lastTick.done /\ lastTick.dtMs < 0) => lastTick.new = lastTick.prev

\* C7: a tick with elapsed time 0 leaves the stored energy unchanged, for
\* every mode and input, however often it is repeated.
C7_ZeroDtIdempotent ==
    (lastTick.done /\ lastTick.dtMs = 0) => lastTick.new = lastTick.prev

\* C7 witness: a repeated tick with elapsed time 0 while the battery flow is not 0
C7_Witness ==
    /\ lastTick.done
    /\ lastTick.dtMs = 0
    /\ lastTick.flow # Zero
    /\ ticks >= 2
    /\ batteryLevel = lastTick.prev

\* C8 (as claimed): no evaluation, by a render or by a tick, sees a stored
\* energy above the maxWh of the configuration it is called with.
C8_NeverAboveNewCapacity ==
    /\ RLe(currentSystemState.batteryPercent, R(100))
    /\ lastTick.done => RLe(lastTick.prev, MaxWh(lastTick.closure.config))

\* DC-bus solar: powerAtController x controllerEfficiency
SolarAvailableForLoad == RMul(ArgFront.powerAtController, config.controllerEfficiency)

AtOrBelowReserve == RLe(ArgFront.batteryPercent, R(30))

SolarInsufficient == RLt(SolarAvailableForLoad, ArgFront.inverterInput)

\* The legacy copy's mode routing on the current arguments
ArgLegacyRouter == LegacyModeRouter(ArgFront, acLoad, config, systemMode)

\* The reserve rule on one routing result: gridChargingPower is the emergency part of gridImport
ReserveRule(gridImport, gridChargingPower, inverterDrawFromBattery) ==
    /\ (AtOrBelowReserve /\ SolarInsufficient) =>
           /\ RSub(gridImport, gridChargingPower) = acLoad
           /\ inverterDrawFromBattery = Zero
    /\ ~AtOrBelowReserve =>
           /\ gridImport = Zero
           /\ inverterDrawFromBattery = ArgFront.inverterInput

\* C9 (as claimed): in HYBRID, at or below 30% with DC-bus solar below the
\* inverter demand the router imports the full AC load and draws nothing from
\* the battery; above 30% the battery serves the load and nothing is
\* imported.  Stated of both copies of calculateSystemState.
C9_ReserveRule ==
    (Returned /\ systemMode = "HYBRID") =>
        /\ ReserveRule(ArgRouter.gridImport, ArgRouter.gridChargingPower,
                       ArgRouter.inverterDrawFromBattery)
        /\ ReserveRule(ArgLegacyRouter.gridImport, Zero,
                       ArgLegacyRouter.inverterDrawFromBattery)
        /\ legacySystemState.gridImport = ArgLegacyRouter.gridImport

EmergencyCase ==
    /\ Returned
    /\ systemMode = "HYBRID"
    /\ AtOrBelowReserve
    /\ SolarInsufficient
    /\ RLt(ArgFront.batteryPercent, R(20))
    /\ RLt(ArgFront.effectiveIntensity, Frac(1, 10))

EmergencyImport == RAdd(acLoad, RDiv(ArgFront.maxChargePower, config.inverterEfficiency))

\* C10 (as claimed): in the emergency case the snapshot's gridImport is
\* acLoad + maxChargePower / inverterEfficiency and netBatteryFlow > 0; with
\* batteryPercent >= 20 or effective intensity >= 0.1 no emergency component
\* is added to gridImport.
C10_EmergencyImportAsClaimed ==
    /\ EmergencyCase =>
           /\ currentSystemState.gridImport = EmergencyImport
           /\ RPos(currentSystemState.netBatteryFlow)
    /\ (Returned /\ systemMode = "HYBRID" /\ ~EmergencyCase) =>
           ArgRouter.gridChargingPower = Zero

\* C10 (amended): in the emergency case the router's gridImport is
\* acLoad + maxChargePower / inverterEfficiency, the snapshot's gridImport is
\* that amount less the exported solar excess (the grid netting), so equal to
\* it whenever DC-bus solar is at most maxChargePower, and netBatteryFlow > 0;
\* with batteryPercent >= 20 or effective intensity >= 0.1 no emergency
\* component is added and the snapshot's gridImport is at most acLoad.
C10_EmergencyImport ==
    /\ EmergencyCase =>
           /\ ArgRouter.gridImport = EmergencyImport
           /\ currentSystemState.gridImport = RSub(EmergencyImport, ArgClamp.gridExport)
           /\ currentSystemState.gridExport = Zero
           /\ RLe(SolarAvailableForLoad, ArgFront.maxChargePower) =>
                  currentSystemState.gridImport = EmergencyImport
           /\ RPos(currentSystemState.netBatteryFlow)
    /\ (Returned /\ systemMode = "HYBRID" /\ ~EmergencyCase) =>
           /\ ArgRouter.gridChargingPower = Zero
           /\ RLe(currentSystemState.gridImport, acLoad)

\* C10 witness: an emergency charge while solar excess is exported
C10_Witness ==
    /\ EmergencyCase
    /\ RPos(acLoad)
    /\ RPos(ArgClamp.gridExport)
    /\ RLt(currentSystemState.gridImport, EmergencyImport)

\* DC-bus solar alone covers the inverter demand, or the battery is above reserve
HybridIdleCase ==
    /\ Returned
    /\ systemMode = "HYBRID"
    /\ \/ RGe(SolarAvailableForLoad, ArgFront.inverterInput)
       \/ RGt(ArgFront.batteryPercent, R(30))

\* The worked example: default configuration, full sun at noon, 200 W load, battery at 50%
NoonExample ==
    /\ Returned
    /\ systemMode = "HYBRID"
    /\ config = DEFAULT_CONFIG
    /\ sunIntensity = R(1)
    /\ timeOfDay = R(12)
    /\ acLoad = R(200)
    /\ ArgFront.batteryPercent = R(50)

\* C11: in HYBRID, whenever DC-bus solar alone covers the inverter demand or
\* batteryPercent > 30, the snapshot has gridActive = TRUE and gridImport = 0;
\* in the worked example generation is 500 W, the solar-leg current 20 A and
\* inverterInput 250 W.
C11_HybridActiveButIdle ==
    /\ HybridIdleCase =>
           /\ currentSystemState.gridActive = TRUE
           /\ currentSystemState.gridImport = Zero
    /\ NoonExample =>
           /\ currentSystemState.generation = R(500)
           /\ currentSystemState.wireStats.solarToController.current = R(20)
           /\ currentSystemState.inverterInput = R(250)
           /\ currentSystemState.gridImport = Zero

\* C11 witness: the worked example, reported active but idle
C11_Witness ==
    /\ NoonExample
    /\ HybridIdleCase
    /\ currentSystemState.gridActive
    /\ currentSystemState.gridImport = Zero

\* generation x inverterEfficiency of a snapshot
SolarAC(snapshot) == RMul(snapshot.generation, config.inverterEfficiency)

OnGridRouting(snapshot) ==
    /\ snapshot.gridActive = TRUE
    /\ snapshot.gridExport = RMax(Zero, RSub(SolarAC(snapshot), acLoad))
    /\ snapshot.gridImport = RMax(Zero, RSub(acLoad, SolarAC(snapshot)))

\* C12: in ON_GRID, with solarAC = generation x inverterEfficiency, the
\* snapshot of either engine copy has gridActive = TRUE,
\* gridExport = max(0, solarAC - acLoad) and gridImport = max(0, acLoad - solarAC);
\* with no sun and acLoad 200 that is gridImport 200 and gridExport 0.
C12_OnGridRouting ==
    (Returned /\ systemMode = "ON_GRID") =>
        /\ currentSystemState.generation = ArgFront.solarInput
        /\ OnGridRouting(currentSystemState)
        /\ OnGridRouting(legacySystemState)
        /\ (currentSystemState.generation = Zero /\ acLoad = R(200)) =>
               /\ currentSystemState.gridImport = R(200)
               /\ currentSystemState.gridExport = Zero

\* C12 witness: an ON_GRID call in which the solar leg loses power and the
\* converted generation still exceeds the load
C12_Witness ==
    /\ Returned
    /\ systemMode = "ON_GRID"
    /\ RPos(acLoad)
    /\ RLt(ArgFront.powerAtController, ArgFront.solarInput)
    /\ RPos(currentSystemState.gridExport)
    /\ currentSystemState.gridImport = Zero

\* C13: in OFF_GRID, for every input and every battery level (0% included),
\* gridActive is FALSE, gridImport and gridExport are 0 and the power drawn
\* from the battery toward the inverter is acLoad / inverterEfficiency, in
\* either engine copy.
C13_OffGridBatteryCarriesLoad ==
    (Returned /\ systemMode = "OFF_GRID") =>
        /\ currentSystemState.gridActive = FALSE
        /\ currentSystemState.gridImport = Zero
        /\ currentSystemState.gridExport = Zero
        /\ currentSystemState.battToInvPower = RDiv(acLoad, config.inverterEfficiency)
        /\ legacySystemState.gridActive = FALSE
        /\ legacySystemState.gridImport = Zero
        /\ legacySystemState.gridExport = Zero
        /\ legacySystemState.inverterDrawFromBattery = RDiv(acLoad, config.inverterEfficiency)

\* C13 witness: an empty battery asked for a positive load in OFF_GRID
C13_Witness ==
    /\ Returned
    /\ systemMode = "OFF_GRID"
    /\ batteryLevel = Zero
    /\ RPos(acLoad)
    /\ RPos(currentSystemState.battToInvPower)

\* Intensity 0 or a time outside the daylight window
NoGenerationInput ==
    \/ sunIntensity = Zero
    \/ RLt(timeOfDay, R(9))
    \/ RGt(timeOfDay, R(16))

\* C14: in OFF_GRID with zero generation, netBatteryFlow is
\* -(acLoad / inverterEfficiency) for every load and every level below full.
C14_OffGridFullDischarge ==
    (Returned /\ systemMode = "OFF_GRID" /\ NoGenerationInput /\ ~ArgFront.isBatteryFull) =>
        /\ currentSystemState.generation = Zero
        /\ currentSystemState.inverterInput = RDiv(acLoad, config.inverterEfficiency)
        /\ currentSystemState.netBatteryFlow = RNeg(RDiv(acLoad, config.inverterEfficiency))

\* C14 witness: full sun supplied after the daylight window, a positive load
\* and a partly charged battery
C14_Witness ==
    /\ Returned
    /\ systemMode = "OFF_GRID"
    /\ sunIntensity = R(1)
    /\ RGt(timeOfDay, R(16))
    /\ RPos(acLoad)
    /\ RPos(batteryLevel)
    /\ ~ArgFront.isBatteryFull
    /\ currentSystemState.netBatteryFlow.n < 0

InDaylightWindow == RLe(R(9), timeOfDay) /\ RLe(timeOfDay, R(16))

\* C15: for timeOfDay < 9 or > 16 the snapshot's sunIntensity and generation
\* are 0 whatever intensity was supplied; for 9 <= timeOfDay <= 16 (ends
\* included) the snapshot's sunIntensity is the supplied intensity and
\* generation = numPanels x panelWattage x intensity.
C15_DaylightWindow ==
    Returned =>
        /\ ~InDaylightWindow =>
               /\ currentSystemState.sunIntensity = Zero
               /\ currentSystemState.generation = Zero
        /\ InDaylightWindow =>
               /\ currentSystemState.sunIntensity = sunIntensity
               /\ currentSystemState.generation =
                      RMul(RMul(config.numPanels, config.panelWattage), sunIntensity)

\* C15 witness: sun supplied at 16:00, the closing end of the window
C15_Witness ==
    /\ Returned
    /\ timeOfDay = R(16)
    /\ RPos(sunIntensity)
    /\ RPos(currentSystemState.generation)

\* 0.0172 x (lengthFt x 0.3048) x 2 / gauge
WireResistance(lengthFt, gauge) ==
    RDiv(RMul(RMul(Frac(172, 10000), RMul(lengthFt, Frac(3048, 10000))), R(2)), gauge)

\* One segment result against the wire model, for the power, voltage, length
\* and gauge the engine passes for it
WireModel(stats, power, voltage, lengthFt, gauge) ==
    IF RLe(power, Zero) \/ RLe(voltage, Zero)
    THEN /\ stats.current = Zero
         /\ PowerLoss(stats) = Zero
         /\ VoltageDrop(stats) = Zero
         /\ stats.isSafe = TRUE
    ELSE /\ stats.current = RDiv(power, voltage)
         /\ stats.resistance = WireResistance(lengthFt, gauge)
         /\ stats.isSafe = RLe(stats.current, RMul(gauge, R(5)))

\* C16: each of the four wire segments follows the wire model: with power <= 0
\* or voltage <= 0 current, powerLoss and voltageDrop are 0 and isSafe is TRUE;
\* otherwise current = power / voltage,
\* resistance = 0.0172 x (lengthFt x 0.3048) x 2 / gauge and isSafe holds
\* exactly when current <= gauge x 5; the solar leg's reported powerLoss is
\* current^2 x resistance and its voltageDrop current x resistance.
C16_WireSegmentModel ==
    Returned =>
        /\ WireModel(currentSystemState.wireStats.solarToController,
                     currentSystemState.generation, config.panelVoltage,
                     config.wireLengthFt, config.wireGaugeMm2)
        /\ WireModel(currentSystemState.wireStats.controllerToBattery,
                     ArgController.powerToBattery, config.batteryVoltage,
                     R(5), config.wireGaugeMm2)
        /\ WireModel(currentSystemState.wireStats.batteryToInverter,
                     currentSystemState.battToInvPower, config.batteryVoltage,
                     R(5), config.wireGaugeMm2)
        /\ WireModel(currentSystemState.wireStats.inverterToLoad,
                     acLoad, R(230), R(20), Frac(25, 10))
        /\ currentSystemState.wireAnalysis.powerLoss =
               RMul(RMul(currentSystemState.wireAnalysis.current,
                         currentSystemState.wireAnalysis.current),
                    IF RPos(currentSystemState.generation)
                    THEN WireResistance(config.wireLengthFt, config.wireGaugeMm2) ELSE Zero)
        /\ currentSystemState.wireAnalysis.voltageDrop =
               RMul(currentSystemState.wireAnalysis.current,
                    IF RPos(currentSystemState.generation)
                    THEN WireResistance(config.wireLengthFt, config.wireGaugeMm2) ELSE Zero)

\* C16 witness: the battery-to-inverter segment at exactly gauge x 5 amperes,
\* beside an idle solar leg
C16_Witness ==
    /\ Returned
    /\ currentSystemState.generation = Zero
    /\ currentSystemState.wireStats.solarToController.isSafe
    /\ RPos(currentSystemState.wireStats.batteryToInverter.current)
    /\ currentSystemState.wireStats.batteryToInverter.current = RMul(config.wireGaugeMm2, R(5))
    /\ currentSystemState.wireStats.batteryToInverter.isSafe

\* The solar leg carries more than wireGaugeMm2 x 5 amperes
SolarLegUnsafe ==
    /\ RPos(currentSystemState.generation)
    /\ RGt(RDiv(currentSystemState.generation, config.panelVoltage),
           RMul(config.wireGaugeMm2, R(5)))

\* C17: whenever the solar-to-controller segment is unsafe, wireAnalysis has
\* isSafe = FALSE, a message other than "OK" and the unclamped current
\* generation / panelVoltage; whenever it is safe the message is "OK".
C17_UnsafeWireWarns ==
    Returned =>
        /\ SolarLegUnsafe =>
               /\ currentSystemState.wireAnalysis.isSafe = FALSE
               /\ currentSystemState.wireAnalysis.message # "OK"
               /\ currentSystemState.wireAnalysis.current =
                      RDiv(currentSystemState.generation, config.panelVoltage)
        /\ ~SolarLegUnsafe =>
               /\ currentSystemState.wireAnalysis.isSafe = TRUE
               /\ currentSystemState.wireAnalysis.message = "OK"

\* C17 witness: 250 A from the 50-panel array on the 10 mm2 wire
C17_Witness ==
    /\ Returned
    /\ SolarLegUnsafe
    /\ config.wireGaugeMm2 = R(10)
    /\ currentSystemState.wireAnalysis.current = R(250)
    /\ currentSystemState.wireAnalysis.message = "WARNING: Wire overheating!"

\* The stored energy is written by the interval callback or by the capacity effect
WrittenByTickOrReclamp ==
    \/ lastTick'.done
    \/ /\ pc = "effects"
       /\ CapacityDepsChanged
       /\ batteryLevel' = Reclamp(batteryLevel, config)

\* The tick's evaluation and the render after it had identical arguments
SameArguments ==
    /\ lastTick.done
    /\ lastTick.closure = Closure(sunIntensity, acLoad, config, timeOfDay, systemMode)
    /\ lastTick.prev = batteryLevel

ReclampPending == pc = "effects" /\ CapacityDepsChanged

\* C19: writes to the stored energy are serial and each is a function of the
\* latest stored value: a step runs at most one tick, the tick integrates from
\* the value stored before it, a pending re-clamp is applied to the tick's
\* result, and a write without a tick is the re-clamp of the stored value.
C19_SerialWrites ==
    [][/\ ticks' \in {ticks, ticks + 1}
       /\ lastTick'.done =>
              /\ ticks' = ticks + 1
              /\ lastTick'.prev = batteryLevel
              /\ batteryLevel' = IF ReclampPending THEN Reclamp(lastTick'.new, config)
                                 ELSE lastTick'.new
       /\ (~lastTick'.done /\ batteryLevel' # batteryLevel) =>
              /\ ReclampPending
              /\ batteryLevel' = Reclamp(batteryLevel, config)]_vars

\* C19 witness: a tick of the previous closure changed the level while a
\* capacity edit was pending, and the stored value is the re-clamp of the
\* tick's result
C19_Witness ==
    /\ lastTick.done
    /\ lastTick.closure.config.batteryCapacityAh # config.batteryCapacityAh
    /\ lastTick.new # lastTick.prev
    /\ lastTick.dtMs # 0
    /\ batteryLevel = Reclamp(lastTick.new, config)
    /\ batteryLevel # Reclamp(lastTick.prev, config)

\* The flow of the last tick, recomputed with the configuration of its closure
FlowUnderClosure ==
    calculateSystemState(lastTick.closure.sunIntensity, lastTick.closure.acLoad, lastTick.prev,
                         lastTick.closure.config, lastTick.closure.timeOfDay,
                         lastTick.closure.systemMode).netBatteryFlow

\* One configuration served the flow and the clamp bound of the last tick
OneConfigPerTick ==
    /\ lastTick.flow = FlowUnderClosure
    /\ lastTick.new = IntegrateFlow(lastTick.prev, lastTick.flow, lastTick.closure.config,
                                    lastTick.dtMs)

\* C20 (as claimed): a tick computes netBatteryFlow and the clamp bound maxWh
\* from one configuration, and that configuration is the one in force when
\* the tick runs: an edit made before a tick is used by that tick.
C20_TickUsesEditedConfig ==
    lastTick.done =>
        /\ OneConfigPerTick
        /\ lastTick.closure.config = config

\* min(max(x, lo), hi)
Clamp(x, lo, hi) == RMax(lo, RMin(x, hi))

\* The engine's netBatteryFlow for the pre-tick energy and the current inputs
FlowUnderCurrentInputs ==
    calculateSystemState(sunIntensity, acLoad, lastTick.prev, config, timeOfDay,
                         systemMode).netBatteryFlow

\* prev + flow x (dt x 10 / 3600), dt in seconds
Integrated(prev, flow, dtMs) ==
    RAdd(prev, RMul(flow, RDiv(RMul(Frac(dtMs, 1000), R(10)), R(3600))))

\* C21 (as claimed): a tick with dt > 0 sets the stored energy to
\* clamp(prev + netBatteryFlow x (dt x 10 / 3600), 0, maxWh) with netBatteryFlow
\* the engine's result for prev and the current inputs; the energy does not
\* decrease when that flow is >= 0, does not increase when it is <= 0 and is
\* unchanged when it is 0.
C21_TickIntegratesCurrentFlow ==
    (lastTick.done /\ lastTick.dtMs > 0) =>
        /\ batteryLevel = Clamp(Integrated(lastTick.prev, FlowUnderCurrentInputs, lastTick.dtMs),
                                Zero, MaxWh(config))
        /\ RGe(FlowUnderCurrentInputs, Zero) => RGe(batteryLevel, lastTick.prev)
        /\ RLe(FlowUnderCurrentInputs, Zero) => RLe(batteryLevel, lastTick.prev)

\* The stored energy as a percentage of the capacity of cfg
PercentOf(level, cfg) == RMul(RDiv(level, MaxWh(cfg)), R(100))

\* C22: the operating mode changes only in a step of the mode buttons; ticks
\* (whatever threshold the battery crosses), configuration edits, sun and load
\* changes, effects and clock moves leave it unchanged.
C22_ModeChangesOnlyBySelection ==
    [][systemMode' # systemMode => \E m \in Modes : SetSystemMode(m)]_vars

\* C22 witness: a tick in HYBRID has taken the battery from above the 30%
\* reserve to below the 20% recovery threshold, and the mode is still HYBRID
C22_Witness ==
    /\ lastTick.done
    /\ lastTick.closure.systemMode = "HYBRID"
    /\ systemMode = "HYBRID"
    /\ RGt(PercentOf(lastTick.prev, lastTick.closure.config), R(GRID_THRESHOLD))
    /\ RLt(PercentOf(lastTick.new, lastTick.closure.config), R(GRID_CHARGE_THRESHOLD))

\* totalDemand of the controller stage outside ON_GRID
TotalDemand == RAdd(ArgFront.maxChargePower, ArgRouter.inverterDrawFromBattery)

\* excessDC of the controller stage
ExcessDC == RSub(SolarAvailableForLoad, TotalDemand)

\* A HYBRID call in which the DC power available exceeds the total demand
HybridSurplus ==
    /\ Returned
    /\ systemMode = "HYBRID"
    /\ RGt(SolarAvailableForLoad, TotalDemand)

\* C23 (as claimed): in HYBRID wastedPower is 0 for all inputs, and when the
\* available DC power exceeds maxChargePower + inverter draw the snapshot
\* reports the surplus DC x inverterEfficiency as grid export (at least that
\* much) with the grid marked active.
C23_HybridSurplusExportedAsClaimed ==
    /\ (Returned /\ systemMode = "HYBRID") => currentSystemState.wastedPower = Zero
    /\ HybridSurplus =>
           /\ currentSystemState.gridActive
           /\ RGe(currentSystemState.gridExport, RMul(ExcessDC, config.inverterEfficiency))

\* C23 (amended): in HYBRID wastedPower is 0 for all inputs; when the
\* available DC power exceeds maxChargePower + inverter draw the controller
\* stage exports the surplus DC x inverterEfficiency, the full-battery clamp only
\* adds to it, the grid is marked active, and the snapshot reports that export
\* net of the router's grid import: gridExport - gridImport of the snapshot is
\* the export less the import, and gridExport is the whole export when nothing
\* is imported.
C23_HybridSurplusExported ==
    /\ (Returned /\ systemMode = "HYBRID") => currentSystemState.wastedPower = Zero
    /\ HybridSurplus =>
           /\ currentSystemState.gridActive
           /\ ArgController.gridExport = RMul(ExcessDC, config.inverterEfficiency)
           /\ RGe(ArgClamp.gridExport, ArgController.gridExport)
           /\ RSub(currentSystemState.gridExport, currentSystemState.gridImport) =
                  RSub(ArgClamp.gridExport, ArgRouter.gridImport)
           /\ ArgRouter.gridImport = Zero =>
                  currentSystemState.gridExport = ArgClamp.gridExport

\* C23 witness: a HYBRID surplus while the router imports for the load, so the
\* export is absorbed by the import
C23_Witness ==
    /\ HybridSurplus
    /\ RPos(ExcessDC)
    /\ RPos(ArgRouter.gridImport)
    /\ currentSystemState.gridExport = Zero
    /\ currentSystemState.wastedPower = Zero

\* C24: in OFF_GRID, for all inputs, powerToBattery + wastedPower equals
\* powerAtController x controllerEfficiency, at the controller stage and in the
\* snapshot (after the full-battery clamp); when the available power is at most
\* the total demand and the battery is not full, wastedPower is 0 and the
\* controller output is the available power.
C24_OffGridControllerAccounting ==
    (Returned /\ systemMode = "OFF_GRID") =>
        /\ RAdd(ArgController.powerToBattery, ArgController.wastedPower) = SolarAvailableForLoad
        /\ RAdd(currentSystemState.powerToBattery, currentSystemState.wastedPower) =
               SolarAvailableForLoad
        /\ RLe(SolarAvailableForLoad, TotalDemand) =>
               /\ ArgController.wastedPower = Zero
               /\ ArgController.powerToBattery = SolarAvailableForLoad
               /\ ~ArgFront.isBatteryFull =>
                      /\ currentSystemState.wastedPower = Zero
                      /\ currentSystemState.powerToBattery = SolarAvailableForLoad

\* C24 witness: an OFF_GRID call with a full battery in which the controller
\* stage already wastes an excess and the clamp wastes the charge on top of it
C24_Witness ==
    /\ Returned
    /\ systemMode = "OFF_GRID"
    /\ ArgFront.isBatteryFull
    /\ RPos(ArgController.wastedPower)
    /\ RPos(ArgRouted)
    /\ RGt(currentSystemState.wastedPower, ArgController.wastedPower)
    /\ RLt(currentSystemState.powerToBattery, ArgController.powerToBattery)

\* ------------------------------------------------------------------------
\* App with the interval timer: Date.now() in milliseconds since the mount
\* ------------------------------------------------------------------------
\* setInterval(..., 100)
Period == 100

\* Date.now() is observed twice per period
TimerStepMs == Period \div 2

MaxPeriods == 2

\* The clock is followed for MaxPeriods periods after the mount
HorizonMs == MaxPeriods * Period

\* Positions along the morning arc (theta = 0 and theta = 30 degrees)
MorningPositions == {<<Zero, R(6)>>, <<Frac(1, 2), R(8)>>}

\* The registered interval: the callback's closure and the time it is next due
Scheduled(cl, due) ==
    [sunIntensity |-> cl.sunIntensity, acLoad |-> cl.acLoad, config |-> cl.config,
     timeOfDay |-> cl.timeOfDay, systemMode |-> cl.systemMode, due |-> due]

\* The state after the mount: the interval effect has run at time 0
InitTimer ==
    /\ sunIntensity = Zero
    /\ timeOfDay = R(9)
    /\ acLoad = R(100)
    /\ systemMode = "HYBRID"
    /\ config = DEFAULT_CONFIG
    /\ batteryLevel = RMul(MaxWh(DEFAULT_CONFIG), Frac(1, 2))
    /\ now = 0
    /\ lastTimeRef = 0
    /\ interval = Scheduled(Closure(Zero, R(100), DEFAULT_CONFIG, R(9), "HYBRID"), Period)
    /\ pc = "idle"
    /\ currentSystemState =
           Render(Zero, R(100), RMul(MaxWh(DEFAULT_CONFIG), Frac(1, 2)),
                  DEFAULT_CONFIG, R(9), "HYBRID")
    /\ lastTick = NoTick
    /\ ticks = 0
    /\ legacySystemState =
           LegacyCalculateSystemState(Zero, R(100), RMul(MaxWh(DEFAULT_CONFIG), Frac(1, 2)),
                                      DEFAULT_CONFIG, R(9), "HYBRID")

\* Mutant: re-creating the interval also restarts the elapsed-time reference
RestartIntervalResetsReference ==
    /\ pc = "effects"
    /\ batteryLevel' = AfterEffects(batteryLevel)
    /\ interval' = Scheduled(Closure(sunIntensity, acLoad, config, timeOfDay, systemMode),
                             now + Period)
    /\ currentSystemState' =
           Render(sunIntensity, acLoad, AfterEffects(batteryLevel), config, timeOfDay, systemMode)
    /\ pc' = "idle"
    /\ lastTick' = NoTick
    /\ lastTimeRef' = now
    /\ UNCHANGED <<sunIntensity, timeOfDay, acLoad, systemMode, config,
                   now, ticks, legacySystemState>>

\* The effects of the committed render: re-clamp, clearInterval, setInterval(..., 100)
RestartInterval ==
    /\ pc = "effects"
    /\ batteryLevel' = AfterEffects(batteryLevel)
    /\ interval' = Scheduled(Closure(sunIntensity, acLoad, config, timeOfDay, systemMode),
                             now + Period)
    /\ currentSystemState' =
           Render(sunIntensity, acLoad, AfterEffects(batteryLevel), config, timeOfDay, systemMode)
    /\ pc' = "idle"
    /\ lastTick' = NoTick
    /\ UNCHANGED <<sunIntensity, timeOfDay, acLoad, systemMode, config,
                   lastTimeRef, now, ticks, legacySystemState>>

\* The interval callback, run when the timer is due
TimerFires ==
    /\ pc = "idle"
    /\ now >= interval.due
    /\ \E t \in {TickRecord(batteryLevel, interval, now - lastTimeRef)} :
           /\ lastTick' = t
           /\ batteryLevel' = t.new
           /\ currentSystemState' =
                  Render(sunIntensity, acLoad, t.new, config, timeOfDay, systemMode)
    /\ lastTimeRef' = now
    /\ interval' = [interval EXCEPT !.due = @ + Period]
    /\ ticks' = ticks + 1
    /\ UNCHANGED <<sunIntensity, timeOfDay, acLoad, systemMode, config, now, pc,
                   legacySystemState>>

\* The timer of the previous render is due and fires before the pending
\* effects have cleared it
TimerFiresBeforeEffects ==
    /\ pc = "effects"
    /\ now >= interval.due
    /\ \E t \in {TickRecord(batteryLevel, interval, now - lastTimeRef)} :
           /\ lastTick' = t
           /\ batteryLevel' = AfterEffects(t.new)
           /\ currentSystemState' =
                  Render(sunIntensity, acLoad, AfterEffects(t.new), config, timeOfDay,
                         systemMode)
    /\ lastTimeRef' = now
    /\ interval' = Scheduled(Closure(sunIntensity, acLoad, config, timeOfDay, systemMode),
                             now + Period)
    /\ pc' = "idle"
    /\ ticks' = ticks + 1
    /\ UNCHANGED <<sunIntensity, timeOfDay, acLoad, systemMode, config, now,
                   legacySystemState>>

\* Time passes while nothing is pending: no effects to run, no timer due
TimePasses ==
    /\ pc = "idle"
    /\ now < interval.due
    /\ now + TimerStepMs <= HorizonMs
    /\ now' = now + TimerStepMs
    /\ lastTick' = NoTick
    /\ UNCHANGED <<sunIntensity, timeOfDay, acLoad, systemMode, config, batteryLevel,
                   lastTimeRef, interval, pc, currentSystemState, ticks,
                   legacySystemState>>

NextTimer ==
    \/ \E m \in Modes : SetSystemMode(m)
    \/ \E l \in AcLoads : SetAcLoad(l)
    \/ \E p \in MorningPositions : handleSunChange(p[1], p[2])
    \/ \E c \in Configs : handleChange(c)
    \/ RestartInterval
    \/ TimerFires
    \/ TimerFiresBeforeEffects
    \/ TimePasses

SpecTimer == InitTimer /\ [][NextTimer]_vars

\* C25 (as claimed): once the app is mounted a tick fires every 100 ms, also
\* while inputs keep changing: the time since the last tick (since the mount
\* before the first tick) never exceeds one period.
C25_FixedCadence == now - lastTimeRef <= Period

\* Positive elapsed times of a tick, in ms
PositiveDts == {ClockStepMs, 2 * ClockStepMs}

IsTickStep == ticks' # ticks

SteadyDts == {ClockStepMs \div 10, ClockStepMs}

\* AC loads of 0, 360 and 1800 W at the inverter's DC side
SteadyLoads == {Zero, R(288), R(1440)}

\* Stored energy at the start (Wh)
SteadyLevels == {Zero, R(360), R(1080), R(1440), R(1800), R(2400), R(3600), R(7200)}

\* Any inputs without generation, and any stored energy within the capacity
InitSteady ==
    /\ \E p \in MorningPositions : sunIntensity = p[1] /\ timeOfDay = p[2]
    /\ acLoad \in SteadyLoads
    /\ systemMode \in Modes
    /\ config \in Configs
    /\ batteryLevel \in SteadyLevels
    /\ RLe(batteryLevel, MaxWh(config))
    /\ now = 0
    /\ lastTimeRef = 0
    /\ interval = Closure(sunIntensity, acLoad, config, timeOfDay, systemMode)
    /\ pc = "idle"
    /\ currentSystemState =
           Render(sunIntensity, acLoad, batteryLevel, config, timeOfDay, systemMode)
    /\ lastTick = NoTick
    /\ ticks = 0
    /\ legacySystemState =
           LegacyCalculateSystemState(sunIntensity, acLoad, batteryLevel, config, timeOfDay,
                                      systemMode)

\* dt ms pass after a tick. The program reads the clock only as
\* now - lastTimeRef, so the time origin is moved to the previous tick.
Elapse(dt) ==
    /\ now = lastTimeRef
    /\ lastTimeRef' = 0
    /\ now' = dt
    /\ lastTick' = NoTick
    /\ UNCHANGED <<sunIntensity, timeOfDay, acLoad, systemMode, config, batteryLevel,
                   interval, pc, currentSystemState, ticks, legacySystemState>>

\* Mutant: the callback integrates the magnitude of the flow
SteadyTickAbsoluteFlow ==
    /\ pc = "idle"
    /\ now > lastTimeRef
    /\ \E t \in {TickRecord(batteryLevel, interval, now - lastTimeRef)} :
       \E new \in {IntegrateFlow(batteryLevel, RMax(t.flow, RNeg(t.flow)), config,
                                 now - lastTimeRef)} :
           /\ lastTick' = [t EXCEPT !.new = new]
           /\ batteryLevel' = new
           /\ currentSystemState' =
                  Render(sunIntensity, acLoad, new, config, timeOfDay, systemMode)
    /\ lastTimeRef' = now
    /\ UNCHANGED <<sunIntensity, timeOfDay, acLoad, systemMode, config, now, interval, pc,
                   ticks, legacySystemState>>

\* The interval callback, some time after the previous one
SteadyTick ==
    /\ pc = "idle"
    /\ now > lastTimeRef
    /\ \E t \in {TickRecord(batteryLevel, interval, now - lastTimeRef)} :
           /\ lastTick' = t
           /\ batteryLevel' = t.new
           /\ currentSystemState' =
                  Render(sunIntensity, acLoad, t.new, config, timeOfDay, systemMode)
    /\ lastTimeRef' = now
    /\ UNCHANGED <<sunIntensity, timeOfDay, acLoad, systemMode, config, now, interval, pc,
                   ticks, legacySystemState>>

NextSteady ==
    \/ \E dt \in SteadyDts : Elapse(dt)
    \/ SteadyTick

\* The clock bookkeeping of a due callback; of the steps of NextSteady only
\* those of SteadyTick satisfy it, and it is enabled exactly when SteadyTick is
CallbackRuns ==
    /\ pc = "idle"
    /\ now > lastTimeRef
    /\ lastTimeRef' = now

\* The interval stays registered: the clock advances and the due callback runs
SpecSteady ==
    /\ InitSteady
    /\ [][NextSteady]_vars
    /\ WF_vars(\E dt \in SteadyDts : Elapse(dt))
    /\ WF_lastTimeRef(CallbackRuns)

\* batteryPercent of the stored energy
BatteryPercent == PercentOf(batteryLevel, config)

\* The inputs are mode m with no generation and a load
NightLoad(m) ==
    /\ systemMode = m
    /\ EffectiveIntensity(sunIntensity, timeOfDay) = Zero
    /\ RPos(acLoad)

BelowRecovery == RLt(BatteryPercent, R(GRID_CHARGE_THRESHOLD))

\* batteryPercent in [20, 30]
InRecoveryBand ==
    /\ RGe(BatteryPercent, R(GRID_CHARGE_THRESHOLD))
    /\ RLe(BatteryPercent, R(GRID_THRESHOLD))

\* C28: with constant inputs HYBRID, effective intensity 0 and acLoad > 0, a
\* battery below 20% is raised by every tick and eventually reaches at least
\* 20%; while batteryPercent is in [20, 30] netBatteryFlow is 0, gridImport is
\* acLoad and no step changes the stored energy.
C28_HybridNightRecovery ==
    /\ (NightLoad("HYBRID") /\ BelowRecovery) ~> RGe(BatteryPercent, R(GRID_CHARGE_THRESHOLD))
    /\ [][(NightLoad("HYBRID") /\ BelowRecovery /\ lastTick'.done) =>
              RGt(batteryLevel', batteryLevel)]_vars
    /\ []((NightLoad("HYBRID") /\ InRecoveryBand) =>
              /\ currentSystemState.netBatteryFlow = Zero
              /\ currentSystemState.gridImport = acLoad)
    /\ [][(NightLoad("HYBRID") /\ InRecoveryBand) => batteryLevel' = batteryLevel]_vars

\* C28 witness: a tick has raised a battery from below 20% into [20, 30], and
\* the engine now reports no flow and the load imported
C28_Witness ==
    /\ NightLoad("HYBRID")
    /\ lastTick.done
    /\ RLt(PercentOf(lastTick.prev, config), R(GRID_CHARGE_THRESHOLD))
    /\ InRecoveryBand
    /\ currentSystemState.netBatteryFlow = Zero
    /\ currentSystemState.gridImport = acLoad

\* C29: with constant inputs OFF_GRID, no generation and acLoad > 0, every
\* tick strictly lowers a positive stored energy, the energy eventually is
\* exactly 0 and then stays 0 on every further step, and the engine reports
\* netBatteryFlow = -inverterInput throughout, at 0 included.
C29_OffGridDrain ==
    /\ NightLoad("OFF_GRID") ~> (batteryLevel = Zero)
    /\ [][(NightLoad("OFF_GRID") /\ lastTick'.done) =>
              IF RPos(batteryLevel) THEN RLt(batteryLevel', batteryLevel)
              ELSE batteryLevel' = Zero]_vars
    /\ [][(NightLoad("OFF_GRID") /\ batteryLevel = Zero) => batteryLevel' = Zero]_vars
    /\ [](NightLoad("OFF_GRID") =>
              /\ currentSystemState.netBatteryFlow = RNeg(currentSystemState.inverterInput)
              /\ RPos(currentSystemState.inverterInput))

\* C29 witness: a tick on an empty battery in OFF_GRID: the energy was 0, is 0,
\* and the engine still reports the discharge
C29_Witness ==
    /\ NightLoad("OFF_GRID")
    /\ lastTick.done
    /\ lastTick.prev = Zero
    /\ batteryLevel = Zero
    /\ RLt(lastTick.flow, Zero)
    /\ currentSystemState.netBatteryFlow = RNeg(currentSystemState.inverterInput)

NonNegative(x) == RGe(x, Zero)

\* C30: for every mode, configuration, intensity in [0, 1], acLoad >= 0 and
\* stored energy >= 0, the snapshot's generation, powerAtController,
\* powerToBattery, inverterInput, gridImport, gridExport, wastedPower and
\* battToInvPower are >= 0, and 0 <= powerAtController <= generation.
C30_ReportedPowersNonNegative ==
    Returned =>
        /\ NonNegative(currentSystemState.generation)
        /\ NonNegative(currentSystemState.powerAtController)
        /\ NonNegative(currentSystemState.powerToBattery)
        /\ NonNegative(currentSystemState.inverterInput)
        /\ NonNegative(currentSystemState.gridImport)
        /\ NonNegative(currentSystemState.gridExport)
        /\ NonNegative(currentSystemState.wastedPower)
        /\ NonNegative(currentSystemState.battToInvPower)
        /\ RLe(currentSystemState.powerAtController, currentSystemState.generation)

\* C30 witness: the solar-leg loss exceeds the generation, so the floor at 0
\* decides powerAtController, while the battery discharges into the load
C30_Witness ==
    /\ Returned
    /\ RPos(currentSystemState.generation)
    /\ RGt(PowerLoss(ArgFront.solarStats), currentSystemState.generation)
    /\ currentSystemState.powerAtController = Zero
    /\ RLt(currentSystemState.netBatteryFlow, Zero)
    /\ RPos(currentSystemState.battToInvPower)

====
